---- MODULE Spec2Model ----
(***************************************************************************)
(* A model of model.py: the Model -> Sheet -> Line (Row/Column) -> Cell    *)
(* addressing core, the LineSeries collection and the gap-tolerant         *)
(* CellLine iterator, over the two office backends (XW and Uno).           *)
(*                                                                         *)
(* The host document is a sparse map from positions <<x, y>> to scalar     *)
(* values: a position outside its domain is an empty cell.                 *)
(***************************************************************************)
EXTENDS Integers, Sequences, FiniteSets, TLC

VARIABLES
    backend,   \* "XW" or "Uno": which Office.<backend> classes are in use
    cells,     \* the host sheet: [inhabited positions -> value]
    colors,    \* the host sheet: [positions with a background color -> color]
    books,     \* the host application: [open book name -> names of its sheets]
    sheet,     \* the Sheet object: _reference_row_index, _reference_column_index
    it,        \* a CellLine iterator object (axis, index, i, highest_inhabited_i)
    emitted,   \* positions of the cells the iterator has returned so far
    last,      \* outcome of the latest __next__ of the iterator
    call,      \* the latest completed call on the Sheet / Line / LineSeries API
    len        \* the running LineSeries.__len__ loop

vars == <<backend, cells, colors, books, sheet, it, emitted, last, call, len>>

----------------------------------------------------------------------------
(* Program constants *)

DEFAULT_COLOR == -1
MAX_CELL_GAP == 10

(* Bounds of the model *)

\* SpecScan: positions 0..MaxLinePos of the scanned line may be inhabited
MaxLinePos == 13
\* SpecScan: at most this many inhabited cells on the scanned line
MaxInhabited == 3
\* line indexes, reference indexes and near positions range over 0..MaxNear
MaxNear == 1
\* Spec: at most this many inhabited cells on the sheet
MaxCells == 2
\* LineSeries.__len__: the loop is followed up to this count
MaxLenCount == 3

Backends == {"XW", "Uno"}

----------------------------------------------------------------------------
(* Scalars.  Python values that reach the code: None, int, float, str.     *)
(* A str is a sequence of one-character strings.                           *)

None == [t |-> "none"]
PyInt(n) == [t |-> "int", v |-> n]
PyFloat(n) == [t |-> "float", v |-> n]
PyStr(s) == [t |-> "str", v |-> s]

IsInt(v) == v.t = "int"
IsStr(v) == v.t = "str"
IsNumber(v) == v.t \in {"int", "float"}

\* Python's == between two scalars
PyEq(a, b) ==
    IF IsNumber(a) /\ IsNumber(b) THEN a.v = b.v
    ELSE IF IsStr(a) /\ IsStr(b) THEN a.v = b.v
    ELSE a.t = "none" /\ b.t = "none"

DigitChar(d) == <<"0", "1", "2", "3", "4", "5", "6", "7", "8", "9">>[d + 1]

RECURSIVE NatStr(_)
NatStr(n) ==
    IF n < 10 THEN <<DigitChar(n)>>
    ELSE NatStr(n \div 10) \o <<DigitChar(n % 10)>>

\* str() of an integral float with the trailing ".0" removed
FloatStr(n) == IF n < 0 THEN <<"-">> \o NatStr(-n) ELSE NatStr(n)

----------------------------------------------------------------------------
(* Outcomes of calls: a return value or a raised exception, with the      *)
(* number of host cell reads and writes the call performed.               *)

RNone == [kind |-> "None"]
RLine(line) == [kind |-> "Line", line |-> line]
RCell(pos) == [kind |-> "Cell", pos |-> pos]

Ok(ret, reads) == [status |-> "ok", err |-> "", ret |-> ret, reads |-> reads, writes |-> 0]
Err(e, reads) == [status |-> "error", err |-> e, ret |-> RNone, reads |-> reads, writes |-> 0]

----------------------------------------------------------------------------
(* The host capability set *)

HostValue(h, pos) == IF pos \in DOMAIN h THEN h[pos] ELSE None

\* com.sun.star cell getString(): the cell's text as displayed
HostGetString(h, pos) ==
    LET v == HostValue(h, pos)
    IN  IF v.t = "none" THEN <<>>
        ELSE IF v.t = "str" THEN v.v
        ELSE FloatStr(v.v)

\* com.sun.star cell FormulaResultType
HostResultType(h, pos) ==
    LET v == HostValue(h, pos)
    IN  IF v.t = "str" THEN "TEXT" ELSE IF v.t = "float" THEN "VALUE" ELSE "EMPTY"

----------------------------------------------------------------------------
(* Sheet *)

SheetDefault == [_reference_row_index |-> 0, _reference_column_index |-> 0]

\* Line.__init__: the reference_index argument is dropped, index is stored
Line(cls, index, reference_index) ==
    [cls |-> cls, index |-> index, reference_index |-> index]

XW_Sheet_get_row_by_index(s, row_index) ==
    IF ~IsInt(row_index) THEN Err("TypeError", 0)
    ELSE IF row_index.v < 0 THEN Err("ValueError", 0)
    ELSE Ok(RLine(Line("Row", row_index.v, s._reference_row_index)), 0)

XW_Sheet_get_column_by_index(s, column_index) ==
    IF ~IsInt(column_index) THEN Err("TypeError", 0)
    ELSE IF column_index.v < 0 THEN Err("ValueError", 0)
    ELSE Ok(RLine(Line("Column", column_index.v, s._reference_row_index)), 0)

Uno_Sheet_get_column_by_index(s, column_index) ==
    IF ~IsInt(column_index) THEN Err("TypeError", 0)
    ELSE IF column_index.v < 0 THEN Err("ValueError", 0)
    ELSE Ok(RLine(Line("Column", column_index.v, s._reference_column_index)), 0)

Uno_Sheet_get_row_by_index(s, row_index) ==
    IF ~IsInt(row_index) THEN Err("TypeError", 0)
    ELSE Ok(RLine(Line("Row", row_index.v, s._reference_row_index)), 0)

Sheet_get_row_by_index(b, s, row_index) ==
    IF b = "XW" THEN XW_Sheet_get_row_by_index(s, row_index)
    ELSE Uno_Sheet_get_row_by_index(s, row_index)

Sheet_get_column_by_index(b, s, column_index) ==
    IF b = "XW" THEN XW_Sheet_get_column_by_index(s, column_index)
    ELSE Uno_Sheet_get_column_by_index(s, column_index)

----------------------------------------------------------------------------
(* Line.get_cell_by_index *)

XW_Column_get_cell_by_index(line, index) ==
    IF ~IsInt(index) THEN Err("TypeError", 0)
    ELSE IF index.v < 0 THEN Err("ValueError", 0)
    ELSE Ok(RCell(<<line.index, index.v>>), 0)

XW_Row_get_cell_by_index(line, index) ==
    IF ~IsInt(index) THEN Err("TypeError", 0)
    ELSE IF index.v < 0 THEN Err("ValueError", 0)
    ELSE Ok(RCell(<<index.v, line.index>>), 0)

Uno_Column_get_cell_by_index(line, index) ==
    IF ~IsInt(index) THEN Err("TypeError", 0)
    ELSE Ok(RCell(<<line.index, index.v>>), 0)

Uno_Row_get_cell_by_index(line, index) ==
    IF ~IsInt(index) THEN Err("TypeError", 0)
    ELSE Ok(RCell(<<index.v, line.index>>), 0)

Line_get_cell_by_index(b, line, index) ==
    IF b = "XW"
    THEN IF line.cls = "Column" THEN XW_Column_get_cell_by_index(line, index)
         ELSE XW_Row_get_cell_by_index(line, index)
    ELSE IF line.cls = "Column" THEN Uno_Column_get_cell_by_index(line, index)
         ELSE Uno_Row_get_cell_by_index(line, index)

----------------------------------------------------------------------------
(* Cell.value and Cell.string *)

XW_Cell_value(h, pos) == HostValue(h, pos)

Uno_Cell_value(h, pos) ==
    LET t == HostResultType(h, pos)
    IN  IF t = "TEXT" THEN PyStr(HostGetString(h, pos))
        ELSE IF t = "VALUE" THEN HostValue(h, pos)
        ELSE None

Cell_value(b, h, pos) ==
    IF b = "XW" THEN XW_Cell_value(h, pos) ELSE Uno_Cell_value(h, pos)

XW_Cell_string(h, pos) ==
    LET value == XW_Cell_value(h, pos)
    IN  IF value.t # "none"
        THEN IF value.t = "float" THEN FloatStr(value.v) ELSE value.v
        ELSE <<>>

Uno_Cell_string(h, pos) == HostGetString(h, pos)

Cell_string(b, h, pos) ==
    IF b = "XW" THEN XW_Cell_string(h, pos) ELSE Uno_Cell_string(h, pos)

----------------------------------------------------------------------------
(* CellLine: the gap-tolerant iterator.  Where a method binds a value and  *)
(* then branches on it, the branches are a second operator (<name>_on)     *)
(* that takes the value as its last parameter.                             *)

\* Sheet.get_cell((x, y)) with two int coordinates and no type hints, as
\* __next__ calls it: the column by index, then its cell by index
Sheet_get_cell_xy_on(b, y, column) ==
    IF column.status = "error" THEN column
    ELSE Line_get_cell_by_index(b, column.ret.line, PyInt(y))

Sheet_get_cell_xy(b, s, x, y) ==
    Sheet_get_cell_xy_on(b, y, Sheet_get_column_by_index(b, s, PyInt(x)))

CellLine(axis, index) ==
    [axis |-> axis, index |-> index, i |-> 0, highest_inhabited_i |-> -1]

\* the (x, y) that __next__ computes for offset k along the iterator's axis
CellLine_pos(self, k) ==
    IF self.axis = "y" THEN <<self.index, k>> ELSE <<k, self.index>>

\* the cell __next__ fetches at offset k
CellLine_cell(b, s, self, k) ==
    Sheet_get_cell_xy(b, s, CellLine_pos(self, k)[1], CellLine_pos(self, k)[2])

\* the for/else loop of __next__, from offset i on: the first offset in
\* range(i, MAX_CELL_GAP) whose test cell has a non-empty string, or 0 when
\* the loop runs to its else branch
RECURSIVE CellLine_probe(_, _, _, _, _)
RECURSIVE CellLine_probe_one_more(_, _, _, _, _)
CellLine_probe_one_more(b, s, h, self, i) ==
    IF i >= MAX_CELL_GAP + 1 THEN 0
    ELSE IF Cell_string(b, h, CellLine_cell(b, s, self, self.i + i).ret.pos) # <<>> THEN i
    ELSE CellLine_probe_one_more(b, s, h, self, i + 1)

CellLine_probe(b, s, h, self, i) ==
    IF i >= MAX_CELL_GAP THEN 0
    ELSE IF Cell_string(b, h, CellLine_cell(b, s, self, self.i + i).ret.pos) # <<>> THEN i
    ELSE CellLine_probe(b, s, h, self, i + 1)

NextOut(status, err, cell, self, reads) ==
    [status |-> status, err |-> err, cell |-> cell, it |-> self, reads |-> reads]

\* the probed offset recorded one position too far
CellLine_next_probed_one_past(self, cell, k) ==
    IF k = 0 THEN NextOut("stop", "StopIteration", <<>>, self, MAX_CELL_GAP)
    ELSE NextOut("cell", "", cell,
                 [self EXCEPT !.highest_inhabited_i = self.i + k + 1, !.i = self.i + 1],
                 1 + k)

\* after the probe: k is the offset it found, or 0
CellLine_next_probed(self, cell, k) ==
    IF k = 0 THEN NextOut("stop", "StopIteration", <<>>, self, MAX_CELL_GAP)
    ELSE NextOut("cell", "", cell,
                 [self EXCEPT !.highest_inhabited_i = self.i + k, !.i = self.i + 1],
                 1 + k)

\* __next__ probing at every empty cell, highest_inhabited_i not consulted
CellLine_next_on_always_probing(b, s, h, self, got) ==
    IF got.status = "error" THEN NextOut("error", got.err, <<>>, self, 0)
    ELSE IF Cell_string(b, h, got.ret.pos) = <<>>
    THEN CellLine_next_probed(self, got.ret.pos, CellLine_probe(b, s, h, self, 1))
    ELSE NextOut("cell", "", got.ret.pos, [self EXCEPT !.i = self.i + 1], 1)

CellLine_next_on(b, s, h, self, got) ==
    IF got.status = "error" THEN NextOut("error", got.err, <<>>, self, 0)
    ELSE IF Cell_string(b, h, got.ret.pos) = <<>> /\ self.i > self.highest_inhabited_i
    THEN CellLine_next_probed(self, got.ret.pos, CellLine_probe(b, s, h, self, 1))
    ELSE NextOut("cell", "", got.ret.pos, [self EXCEPT !.i = self.i + 1], 1)

CellLine_next(b, s, h, self) ==
    CellLine_next_on(b, s, h, self, CellLine_cell(b, s, self, self.i))

\* list(iterator): every cell returned up to StopIteration
RestOut(status, err, seq, reads) ==
    [status |-> status, err |-> err, cells |-> seq, reads |-> reads]

RestCons(n, r) == RestOut(r.status, r.err, <<n.cell>> \o r.cells, n.reads + r.reads)

RECURSIVE CellLine_rest(_, _, _, _)
CellLine_rest_on(b, s, h, n) ==
    IF n.status = "cell" THEN RestCons(n, CellLine_rest(b, s, h, n.it))
    ELSE IF n.status = "stop" THEN RestOut("ok", "", <<>>, n.reads)
    ELSE RestOut("error", n.err, <<>>, n.reads)

CellLine_rest(b, s, h, self) == CellLine_rest_on(b, s, h, CellLine_next(b, s, h, self))

----------------------------------------------------------------------------
(* Line.__iter__ and the iter() protocol *)

RIter(self) == [kind |-> "CellLine", it |-> self]

Line_get_iterator(line, axis) == RIter(CellLine(axis, line.index))

XW_Column_iter(line) == Line_get_iterator(line, "y")
XW_Row_iter(line) == Line_get_iterator(line, "x")
Uno_Column_iter(line) == Line_get_iterator(line, "y")
\* the iterator is built and dropped: the method returns None
Uno_Row_iter(line) == RNone

Line_iter(b, line) ==
    IF b = "XW"
    THEN IF line.cls = "Column" THEN XW_Column_iter(line) ELSE XW_Row_iter(line)
    ELSE IF line.cls = "Column" THEN Uno_Column_iter(line) ELSE Uno_Row_iter(line)

\* iter(line), as a for statement applies it: a non-iterator is a TypeError
PyIter_on(r) == IF r.kind = "CellLine" THEN Ok(r, 0) ELSE Err("TypeError", 0)

PyIter(b, line) == PyIter_on(Line_iter(b, line))

\* list(line)
RCells(seq) == [kind |-> "Cells", cells |-> seq]

Line_cells_rest(r) ==
    IF r.status = "error" THEN Err(r.err, r.reads) ELSE Ok(RCells(r.cells), r.reads)

Line_cells_on(b, s, h, i) ==
    IF i.status = "error" THEN i
    ELSE Line_cells_rest(CellLine_rest(b, s, h, i.ret.it))

Line_cells(b, s, h, line) == Line_cells_on(b, s, h, PyIter(b, line))

\* Office.<backend>.Line.__len__
RIndex(n) == [kind |-> "Int", n |-> n]

Line_len_on(r) ==
    IF r.status = "error" THEN r ELSE Ok(RIndex(Len(r.ret.cells)), r.reads)

Line_len(b, s, h, line) == Line_len_on(Line_cells(b, s, h, line))

----------------------------------------------------------------------------
(* Sheet: reference lines *)

\* get_row / get_column with the int reference index: resolved by index
Sheet_reference_row(b, s) ==
    Sheet_get_row_by_index(b, s, PyInt(s._reference_row_index))

Sheet_reference_column(b, s) ==
    Sheet_get_column_by_index(b, s, PyInt(s._reference_column_index))

\* Cell.row and Cell.column: get_row / get_column with the int coordinate
Cell_row(b, s, pos) == Sheet_get_row_by_index(b, s, PyInt(pos[2]))
Cell_column(b, s, pos) == Sheet_get_column_by_index(b, s, PyInt(pos[1]))

WithReads(o, reads) == [o EXCEPT !.reads = reads]

Found(status, err, found, x, cell, reads) ==
    [status |-> status, err |-> err, found |-> found, x |-> x, cell |-> cell,
     reads |-> reads]

\* for x, cell in enumerate(<iterator>): if cell.value == reference: <return>
\* run from iterator state self with the enumeration counter at x
RECURSIVE EnumerateFind(_, _, _, _, _, _)
EnumerateFind_on(b, s, h, x, reference, n) ==
    IF n.status = "error" THEN Found("error", n.err, FALSE, x, <<>>, n.reads)
    ELSE IF n.status = "stop" THEN Found("ok", "", FALSE, x, <<>>, n.reads)
    ELSE IF PyEq(Cell_value(b, h, n.cell), reference)
    THEN Found("ok", "", TRUE, x, n.cell, n.reads + 1)
    ELSE [EnumerateFind(b, s, h, n.it, x + 1, reference) EXCEPT !.reads = @ + n.reads + 1]

EnumerateFind(b, s, h, self, x, reference) ==
    EnumerateFind_on(b, s, h, x, reference, CellLine_next(b, s, h, self))

\* the same loop over a Line: iter(line) first
FindInLine_on(b, s, h, reference, i) ==
    IF i.status = "error" THEN Found("error", i.err, FALSE, 0, <<>>, 0)
    ELSE EnumerateFind(b, s, h, i.ret.it, 0, reference)

FindInLine(b, s, h, line, reference) ==
    FindInLine_on(b, s, h, reference, PyIter(b, line))

\* the loop over a Line that a method call returned (or failed to)
FindInRef(b, s, h, ref, reference) ==
    IF ref.status = "error" THEN Found("error", ref.err, FALSE, 0, <<>>, 0)
    ELSE FindInLine(b, s, h, ref.ret.line, reference)

Sheet_get_column_index_from_name_on(f) ==
    IF f.status = "error" THEN Err(f.err, f.reads)
    ELSE IF f.found THEN Ok(RIndex(f.x), f.reads)
    ELSE Ok(RNone, f.reads)

Sheet_get_column_index_from_name(b, s, h, column_name) ==
    Sheet_get_column_index_from_name_on(
        FindInRef(b, s, h, Sheet_reference_row(b, s), column_name))

Sheet_get_column_by_name_on(b, s, x) ==
    IF x.status = "error" THEN x
    ELSE IF x.ret.kind # "None"
    THEN WithReads(Sheet_get_column_by_index(b, s, PyInt(x.ret.n)), x.reads)
    ELSE Ok(RNone, x.reads)

Sheet_get_column_by_name(b, s, h, column_name) ==
    Sheet_get_column_by_name_on(b, s,
        Sheet_get_column_index_from_name(b, s, h, column_name))

----------------------------------------------------------------------------
(* LineSeries *)

LineSeries(reference_line) == [reference_line |-> reference_line]

RSeries(series) == [kind |-> "LineSeries", series |-> series]

LineSeries_contents_type(self) ==
    IF self.reference_line.cls = "Row" THEN "columns" ELSE "rows"

\* the Line that LineSeries.__iter__ yields for one cell of the reference line
LineSeries_yield(b, s, self, pos) ==
    IF LineSeries_contents_type(self) = "rows" THEN Cell_row(b, s, pos)
    ELSE Cell_column(b, s, pos)

Sheet_series_on(reference_line) ==
    IF reference_line.status = "error" THEN reference_line
    ELSE Ok(RSeries(LineSeries(reference_line.ret.line)), 0)

Sheet_columns(b, s) == Sheet_series_on(Sheet_reference_row(b, s))

Sheet_rows(b, s) == Sheet_series_on(Sheet_reference_column(b, s))

\* self.__iter__().__next__(): the first Line a fresh generator yields;
\* StopIteration when the reference line yields no cell
LineSeries_first_next(b, s, self, n) ==
    IF n.status = "error" THEN Err(n.err, n.reads)
    ELSE IF n.status = "stop" THEN Err("StopIteration", n.reads)
    ELSE WithReads(LineSeries_yield(b, s, self, n.cell), n.reads)

LineSeries_first_on(b, s, h, self, i) ==
    IF i.status = "error" THEN i
    ELSE LineSeries_first_next(b, s, self, CellLine_next(b, s, h, i.ret.it))

LineSeries_first(b, s, h, self) ==
    LineSeries_first_on(b, s, h, self, PyIter(b, self.reference_line))

RLines(seq) == [kind |-> "Lines", lines |-> seq]

\* list(series): the Lines of one full traversal
LineSeries_lines_on(b, s, self, c) ==
    IF c.status = "error" THEN c
    ELSE Ok(RLines([k \in 1..Len(c.ret.cells) |->
                      LineSeries_yield(b, s, self, c.ret.cells[k]).ret.line]),
            c.reads)

LineSeries_lines(b, s, h, self) ==
    LineSeries_lines_on(b, s, self, Line_cells(b, s, h, self.reference_line))

LineSeries_get_by_name_on(b, s, self, f) ==
    IF f.status = "error" THEN Err(f.err, f.reads)
    ELSE IF f.found THEN WithReads(LineSeries_yield(b, s, self, f.cell), f.reads)
    ELSE Ok(RNone, f.reads)

LineSeries_get_by_name(b, s, h, self, name) ==
    LineSeries_get_by_name_on(b, s, self,
        FindInLine(b, s, h, self.reference_line, name))

\* the loop of get_row_index_from_name runs over self.rows, whose elements
\* are Rows: the first element's .value is an AttributeError
Sheet_get_row_index_from_name_first(cell) ==
    IF cell.status = "error"
    THEN IF cell.err = "StopIteration" THEN Ok(RNone, cell.reads) ELSE cell
    ELSE Err("AttributeError", cell.reads)

Sheet_get_row_index_from_name_on(b, s, h, rows) ==
    IF rows.status = "error" THEN rows
    ELSE Sheet_get_row_index_from_name_first(
             LineSeries_first(b, s, h, rows.ret.series))

Sheet_get_row_index_from_name(b, s, h, row_name) ==
    Sheet_get_row_index_from_name_on(b, s, h, Sheet_rows(b, s))

Sheet_get_row_by_name_on(b, s, y) ==
    IF y.status = "error" THEN y
    ELSE IF y.ret.kind # "None"
    THEN WithReads(Sheet_get_row_by_index(b, s, PyInt(y.ret.n)), y.reads)
    ELSE Ok(RNone, y.reads)

Sheet_get_row_by_name(b, s, h, row_name) ==
    Sheet_get_row_by_name_on(b, s, Sheet_get_row_index_from_name(b, s, h, row_name))

Sheet_get_row(b, s, h, row_identifier) ==
    IF IsStr(row_identifier) THEN Sheet_get_row_by_name(b, s, h, row_identifier)
    ELSE Sheet_get_row_by_index(b, s, row_identifier)

Sheet_get_column(b, s, h, column_identifier) ==
    IF IsStr(column_identifier) THEN Sheet_get_column_by_name(b, s, h, column_identifier)
    ELSE Sheet_get_column_by_index(b, s, column_identifier)

----------------------------------------------------------------------------
(* Line.get_cell_by_reference and Sheet.get_cell *)

Line_reference_line(b, s, line) ==
    IF line.cls = "Column" THEN Sheet_reference_column(b, s)
    ELSE Sheet_reference_row(b, s)

Line_get_cell_by_reference_on(b, line, f) ==
    IF f.status = "error" THEN Err(f.err, f.reads)
    ELSE IF f.found THEN WithReads(Line_get_cell_by_index(b, line, PyInt(f.x)), f.reads)
    ELSE Ok(RNone, f.reads)

Line_get_cell_by_reference(b, s, h, line, reference) ==
    Line_get_cell_by_reference_on(b, line,
        FindInRef(b, s, h, Line_reference_line(b, s, line), reference))

\* the two conditions of get_cell that pick by-name resolution
Sheet_get_cell_x_by_name(x_identifier, x_identifier_type, y_identifier_type) ==
    x_identifier_type = "name" \/ (x_identifier_type = "None" /\ IsStr(x_identifier))

Sheet_get_cell_y_by_name(y_identifier, x_identifier_type, y_identifier_type) ==
    y_identifier_type = "name" \/ (x_identifier_type = "None" /\ IsStr(y_identifier))

Sheet_get_cell_column(b, s, h, x_identifier, x_identifier_type, y_identifier_type) ==
    IF Sheet_get_cell_x_by_name(x_identifier, x_identifier_type, y_identifier_type)
    THEN Sheet_get_column_by_name(b, s, h, x_identifier)
    ELSE IF ~IsInt(x_identifier) THEN Err("AssertionError", 0)
    ELSE Sheet_get_column_by_index(b, s, x_identifier)

AddReads(o, reads) == [o EXCEPT !.reads = @ + reads]

Sheet_get_cell_on(b, s, h, y_identifier, x_identifier_type, y_identifier_type, column) ==
    IF column.status = "error" THEN column
    ELSE IF column.ret.kind = "None" THEN Err("AttributeError", column.reads)
    ELSE IF Sheet_get_cell_y_by_name(y_identifier, x_identifier_type, y_identifier_type)
    THEN AddReads(Line_get_cell_by_reference(b, s, h, column.ret.line, y_identifier),
                  column.reads)
    ELSE AddReads(Line_get_cell_by_index(b, column.ret.line, y_identifier), column.reads)

Sheet_get_cell(b, s, h, x_identifier, y_identifier, x_identifier_type, y_identifier_type) ==
    Sheet_get_cell_on(b, s, h, y_identifier, x_identifier_type, y_identifier_type,
        Sheet_get_cell_column(b, s, h, x_identifier, x_identifier_type,
                              y_identifier_type))

----------------------------------------------------------------------------
(* Sheet construction and the reference index setters *)

SetOut(status, err, s) == [status |-> status, err |-> err, sheet |-> s]

Sheet_set_reference_row_index(s, new_index) ==
    IF new_index < 0 THEN SetOut("error", "IndexError", s)
    ELSE SetOut("ok", "", [s EXCEPT !._reference_row_index = new_index])

\* the setter without its range check
Sheet_set_reference_column_index_unchecked(s, new_index) ==
    SetOut("ok", "", [s EXCEPT !._reference_column_index = new_index])

Sheet_set_reference_column_index(s, new_index) ==
    IF new_index < 0 THEN SetOut("error", "IndexError", s)
    ELSE SetOut("ok", "", [s EXCEPT !._reference_column_index = new_index])

\* Office.<backend>.Sheet.__init__ (the same text in both backends): the
\* new object starts from the class attributes and goes through the setters
Sheet_init(reference_row_index, reference_column_index) ==
    LET r == Sheet_set_reference_row_index(SheetDefault, reference_row_index)
    IN  IF r.status = "error" THEN r
        ELSE Sheet_set_reference_column_index(r.sheet, reference_column_index)

----------------------------------------------------------------------------
(* LineSeries.__len__, one evaluation of the while condition at a time *)

LenIdle == [pc |-> "idle"]

LenState(pc, self, count, result, err) ==
    [pc |-> pc, series |-> self, count |-> count, result |-> result, err |-> err]

\* while self.__iter__().__next__(): count += 1, inside try/except StopIteration.
\* The truth value of the Line is its __len__; when the condition is false
\* the method falls off its end and returns None, which len() rejects.
LineSeries_len_truth(self, count, n) ==
    IF n.status = "error" THEN LenState("raised", self, count, -1, n.err)
    ELSE IF n.ret.n # 0 THEN LenState("loop", self, count + 1, -1, "")
    ELSE LenState("raised", self, count, -1, "TypeError")

LineSeries_len_step_on(b, s, h, self, count, first) ==
    IF first.status = "error"
    THEN IF first.err = "StopIteration" THEN LenState("returned", self, count, count, "")
         ELSE LenState("raised", self, count, -1, first.err)
    ELSE LineSeries_len_truth(self, count, Line_len(b, s, h, first.ret.line))

LineSeries_len_step(b, s, h, self, count) ==
    LineSeries_len_step_on(b, s, h, self, count, LineSeries_first(b, s, h, self))

\* entering __len__ on sheet.columns / sheet.rows
LineSeries_len_enter(kind, series) ==
    IF series.status = "error" THEN LenState("raised", kind, 0, -1, series.err)
    ELSE LenState("loop", series.ret.series, 0, -1, "")

----------------------------------------------------------------------------
(* Color *)

PyTuple(seq) == [t |-> "tuple", v |-> seq]
PyList(seq) == [t |-> "list", v |-> seq]

RColor(n) == [kind |-> "Color", color |-> n]

\* self.color = (r << 16) + (g << 8) + b
Color_pack(r, g, b) == r * 65536 + g * 256 + b

\* Color.__init__: the stored integer, or the exception raised
Color_init(color) ==
    IF color.t = "int" THEN Ok(RColor(color.v), 0)
    ELSE IF color.t = "tuple"
    THEN IF Len(color.v) # 3 THEN Err("ValueError", 0)
         ELSE IF \E k \in 1..3 : color.v[k] > 255 THEN Err("ValueError", 0)
         ELSE Ok(RColor(Color_pack(color.v[1], color.v[2], color.v[3])), 0)
    ELSE IF color.t = "str" THEN Err("ValueError", 0)
    ELSE Err("TypeError", 0)

\* the three shifts without their & 255
Color_rgb_unmasked(color) == <<color \div 65536, color \div 256, color>>

\* Color.rgb: ((color >> 16) & 255, (color >> 8) & 255, color & 255)
Color_rgb(color) ==
    <<(color \div 65536) % 256, (color \div 256) % 256, color % 256>>

----------------------------------------------------------------------------
(* Host writes.  A host cell holds a number as a float, a text as it was   *)
(* given, and is empty after None or the empty text was written to it.     *)

HostStored(v) ==
    IF v.t = "int" THEN PyFloat(v.v)
    ELSE IF v.t = "str" /\ v.v = <<>> THEN None
    ELSE v

HostPut(h, pos, v) ==
    IF v.t = "none" THEN [p \in DOMAIN h \ {pos} |-> h[p]]
    ELSE [p \in DOMAIN h \cup {pos} |-> IF p = pos THEN v ELSE h[p]]

\* xlwings Range.value = v: a one-element list is written as its element
XW_HostSetValue(h, pos, v) ==
    HostPut(h, pos, HostStored(IF v.t = "list" THEN v.v[1] ELSE v))

\* com.sun.star cell setString(s) and setValue(x)
HostSetString(h, pos, s) == HostPut(h, pos, HostStored(PyStr(s)))
HostSetValue(h, pos, x) == HostPut(h, pos, PyFloat(x))

\* xlwings Range.color: None, or the (r, g, b) tuple of the fill
XW_HostColor(c, pos) == IF pos \in DOMAIN c THEN c[pos] ELSE None
\* com.sun.star cell CellBackColor: -1, or the packed color of the fill
Uno_HostColor(c, pos) == IF pos \in DOMAIN c THEN c[pos] ELSE PyInt(-1)

\* outcome of a method that writes: the host after it, and the number of
\* host writes it made
Wrote(h, c, writes) ==
    [status |-> "ok", err |-> "", cells |-> h, colors |-> c, writes |-> writes]
Raised(e, h, c, writes) ==
    [status |-> "error", err |-> e, cells |-> h, colors |-> c, writes |-> writes]

----------------------------------------------------------------------------
(* Cell: value setter, set_color, get_color, clear *)

XW_Cell_set_value(h, c, pos, new_value) ==
    Wrote(XW_HostSetValue(h, pos, new_value), c, 1)

Uno_Cell_set_string(h, c, pos, new_string) ==
    IF new_string.t # "str" THEN Raised("AssertionError", h, c, 0)
    ELSE Wrote(HostSetString(h, pos, new_string.v), c, 1)

Uno_Cell_set_float(h, c, pos, new_float) ==
    IF ~IsNumber(new_float) THEN Raised("AssertionError", h, c, 0)
    ELSE Wrote(HostSetValue(h, pos, new_float.v), c, 1)

Uno_Cell_set_value(h, c, pos, new_value) ==
    IF ~(IsStr(new_value) \/ IsNumber(new_value)) THEN Raised("AssertionError", h, c, 0)
    ELSE IF IsStr(new_value) THEN Uno_Cell_set_string(h, c, pos, new_value)
    ELSE Uno_Cell_set_float(h, c, pos, new_value)

Cell_set_value(b, h, c, pos, new_value) ==
    IF b = "XW" THEN XW_Cell_set_value(h, c, pos, new_value)
    ELSE Uno_Cell_set_value(h, c, pos, new_value)

ColorPut(c, pos, v) == [p \in DOMAIN c \cup {pos} |-> IF p = pos THEN v ELSE c[p]]
ColorDrop(c, pos) == [p \in DOMAIN c \ {pos} |-> c[p]]

\* Office.XW.Cell.set_color: color >= 0 and color == -1 compare the
\* argument with an int, which raises TypeError for a tuple, list or str
XW_Cell_set_color_on(h, c, pos, col) ==
    IF col.status = "error" THEN Raised(col.err, h, c, 0)
    ELSE Wrote(h, ColorPut(c, pos, PyTuple(Color_rgb(col.ret.color))), 1)

XW_Cell_set_color(h, c, pos, color) ==
    IF ~IsNumber(color) THEN Raised("TypeError", h, c, 0)
    ELSE IF color.v >= 0 THEN XW_Cell_set_color_on(h, c, pos, Color_init(color))
    ELSE IF color.v = -1 THEN Wrote(h, ColorDrop(c, pos), 1)
    ELSE Wrote(h, c, 0)

Uno_PutBackColor(c, pos, n) == IF n = -1 THEN ColorDrop(c, pos) ELSE ColorPut(c, pos, PyInt(n))

Uno_Cell_set_color(h, c, pos, color) ==
    IF color.t \notin {"int", "tuple", "list"} THEN Raised("AssertionError", h, c, 0)
    ELSE IF color.t = "int" THEN Wrote(h, Uno_PutBackColor(c, pos, color.v), 1)
    ELSE IF Len(color.v) < 3 THEN Raised("IndexError", h, c, 0)
    ELSE Wrote(h, Uno_PutBackColor(c, pos,
                 color.v[1] * 256 * 256 + color.v[2] * 256 + color.v[3]), 1)

Cell_set_color(b, h, c, pos, color) ==
    IF b = "XW" THEN XW_Cell_set_color(h, c, pos, color)
    ELSE Uno_Cell_set_color(h, c, pos, color)

XW_Cell_get_color(c, pos) ==
    IF XW_HostColor(c, pos).t = "none" THEN PyInt(-1) ELSE XW_HostColor(c, pos)

Uno_Cell_get_color(c, pos) == Uno_HostColor(c, pos)

Cell_get_color(b, c, pos) ==
    IF b = "XW" THEN XW_Cell_get_color(c, pos) ELSE Uno_Cell_get_color(c, pos)

AddWrites(o, writes) == [o EXCEPT !.writes = @ + writes]

\* Cell.clear: self.value = None, then self.set_color(DEFAULT_COLOR)
Cell_clear_on(b, pos, r) ==
    IF r.status = "error" THEN r
    ELSE AddWrites(Cell_set_color(b, r.cells, r.colors, pos, PyInt(DEFAULT_COLOR)), r.writes)

Cell_clear(b, h, c, pos) == Cell_clear_on(b, pos, Cell_set_value(b, h, c, pos, None))

----------------------------------------------------------------------------
(* Cell: whitespace *)

\* ' '.join(s.split()): the words of s, one space between two of them
RECURSIVE Words(_, _, _, _)
Words(s, i, out, gap) ==
    IF i > Len(s) THEN out
    ELSE IF s[i] = " " THEN Words(s, i + 1, out, out # <<>>)
    ELSE Words(s, i + 1, (IF gap THEN Append(out, " ") ELSE out) \o <<s[i]>>, FALSE)

Cell_value_without_whitespace_on(value) ==
    IF IsStr(value) THEN PyStr(Words(value.v, 1, <<>>, FALSE)) ELSE value

Cell_value_without_whitespace(b, h, pos) ==
    Cell_value_without_whitespace_on(Cell_value(b, h, pos))

Cell_has_whitespace_on(value) == ~PyEq(Cell_value_without_whitespace_on(value), value)

Cell_has_whitespace(b, h, pos) == Cell_has_whitespace_on(Cell_value(b, h, pos))

\* Cell.remove_whitespace: self.value = self.value_without_whitespace
Cell_remove_whitespace(b, h, c, pos) ==
    Cell_set_value(b, h, c, pos, Cell_value_without_whitespace(b, h, pos))

----------------------------------------------------------------------------
(* Line.name_cell_index and Line.clear *)

Column_name_cell_index(s, line) == s._reference_row_index
Row_name_cell_index(s, line) == s._reference_column_index

Line_name_cell_index(s, line) ==
    IF line.cls = "Column" THEN Column_name_cell_index(s, line)
    ELSE Row_name_cell_index(s, line)

\* [cell.clear() for i, cell in enumerate(self)
\*  if i > self.name_cell_index or include_header]
\* the iterator is advanced on the host as the clears so far have left it;
\* i, the count of enumerate, is the position of the cell just returned
RECURSIVE Line_clear_loop(_, _, _, _, _, _, _, _)
Line_clear_cleared(b, s, self, nci, include_header, writes, r) ==
    IF r.status = "error" THEN AddWrites(r, writes)
    ELSE Line_clear_loop(b, s, r.cells, r.colors, self, nci, include_header,
                         writes + r.writes)

Line_clear_step(b, s, h, c, nci, include_header, writes, n) ==
    IF n.status = "stop" THEN Wrote(h, c, writes)
    ELSE IF n.status = "error" THEN Raised(n.err, h, c, writes)
    ELSE IF n.it.i - 1 > nci \/ include_header
    THEN Line_clear_cleared(b, s, n.it, nci, include_header, writes,
                            Cell_clear(b, h, c, n.cell))
    ELSE Line_clear_loop(b, s, h, c, n.it, nci, include_header, writes)

Line_clear_loop(b, s, h, c, self, nci, include_header, writes) ==
    Line_clear_step(b, s, h, c, nci, include_header, writes, CellLine_next(b, s, h, self))

Line_clear_on(b, s, h, c, line, include_header, i) ==
    IF i.status = "error" THEN Raised(i.err, h, c, 0)
    ELSE Line_clear_loop(b, s, h, c, i.ret.it, Line_name_cell_index(s, line),
                         include_header, 0)

Line_clear(b, s, h, c, line, include_header) ==
    Line_clear_on(b, s, h, c, line, include_header, PyIter(b, line))

----------------------------------------------------------------------------
(* Line.duplicates *)

\* the loop body of duplicates for the cells seq[k..]: seen is cell_values
RECURSIVE Line_duplicates_from(_, _, _, _, _, _)
Line_duplicates_seen(b, h, seq, k, seen, out, v) ==
    Line_duplicates_from(b, h, seq, k + 1, seen \cup {v},
                         IF v \in seen THEN Append(out, seq[k]) ELSE out)

Line_duplicates_from(b, h, seq, k, seen, out) ==
    IF k > Len(seq) THEN out
    ELSE Line_duplicates_seen(b, h, seq, k, seen, out,
                              Cell_value_without_whitespace(b, h, seq[k]))

\* list(line.duplicates)
Line_duplicates_on(b, h, r) ==
    IF r.status = "error" THEN r
    ELSE Ok(RCells(Line_duplicates_from(b, h, r.ret.cells, 1, {}, <<>>)),
            r.reads + 2 * Len(r.ret.cells))

Line_duplicates(b, s, h, line) == Line_duplicates_on(b, h, Line_cells(b, s, h, line))

----------------------------------------------------------------------------
(* Line.name and LineSeries.named_only *)

RValue(v) == [kind |-> "Value", value |-> v]

\* Column.__getitem__ / Row.__getitem__ with an int
Line_getitem_index(b, line, cell_identifier) ==
    Line_get_cell_by_index(b, line, PyInt(cell_identifier))

\* self[self.name_cell_index].value
Line_name_on(b, h, cell) ==
    IF cell.status = "error" THEN cell
    ELSE Ok(RValue(Cell_value(b, h, cell.ret.pos)), cell.reads + 1)

\* the name read at the index the Line itself stores, not at the Sheet's
Line_name_by_reference_index(b, s, h, line) ==
    Line_name_on(b, h, Line_getitem_index(b, line, line.reference_index))

Line_name(b, s, h, line) ==
    Line_name_on(b, h, Line_getitem_index(b, line, Line_name_cell_index(s, line)))

\* the truth value of a Python scalar
PyTruth(v) ==
    IF v.t = "none" THEN FALSE
    ELSE IF v.t = "str" THEN v.v # <<>>
    ELSE v.v # 0

\* for line in self: if line.name: yield line
LineSeries_named_only_on(b, s, h, r) ==
    IF r.status = "error" THEN r
    ELSE Ok(RLines(SelectSeq(r.ret.lines,
                             LAMBDA line : PyTruth(Line_name(b, s, h, line).ret.value))),
            r.reads + Len(r.ret.lines))

LineSeries_named_only(b, s, h, self) ==
    LineSeries_named_only_on(b, s, h, LineSeries_lines(b, s, h, self))

\* list(series) with list(series.indexes): for line in self: yield line.index
LineSeries_indexes_on(r) ==
    IF r.status = "error" THEN r
    ELSE Ok([kind |-> "Lines", lines |-> r.ret.lines,
             indexes |-> [k \in 1..Len(r.ret.lines) |-> r.ret.lines[k].index]],
            r.reads)

LineSeries_indexes(b, s, h, self) ==
    LineSeries_indexes_on(LineSeries_lines(b, s, h, self))

----------------------------------------------------------------------------
(* Model.sheet_exists.  A name is a sequence of tokens, "::" being the     *)
(* book/sheet separator; the host is the map from the open books to the    *)
(* names of their sheets.                                                  *)

\* sorted(S)
RECURSIVE Ascending_(_)
Ascending_(S) ==
    IF S = {} THEN <<>>
    ELSE LET m == CHOOSE k \in S : \A j \in S : k <= j
         IN  <<m>> \o Ascending_(S \ {m})

Separators(name) == {i \in 1..Len(name) : name[i] = "::"}

\* name.split("::")
SplitName(name) ==
    LET at == Ascending_(Separators(name))
        n == Len(at)
    IN  [k \in 1..(n + 1) |->
            SubSeq(name, (IF k = 1 THEN 1 ELSE at[k - 1] + 1),
                         (IF k = n + 1 THEN Len(name) ELSE at[k] - 1))]

\* outcome of sheet_exists: what it returned and how many candidates it
\* looked up on the host
Looked(status, err, ret, lookups) ==
    [status |-> status, err |-> err, ret |-> ret, lookups |-> lookups]

\* every sheet of every open book
XW_sheets(bk) == UNION {bk[book] : book \in DOMAIN bk}

RECURSIVE XW_Model_sheet_exists_from(_, _, _)
\* the branch for a name holding "::": book_name, sheet_name_ = split
XW_Model_sheet_exists_split(bk, sheet_name, k, parts) ==
    IF Len(parts) # 2 THEN Looked("error", "ValueError", None, k - 1)
    ELSE IF parts[1] \in DOMAIN bk /\ parts[2] \in bk[parts[1]]
    THEN Looked("ok", "", PyStr(parts[2]), k)
    ELSE XW_Model_sheet_exists_from(bk, sheet_name, k + 1)

XW_Model_sheet_exists_from(bk, sheet_name, k) ==
    IF k > Len(sheet_name) THEN Looked("ok", "", None, Len(sheet_name))
    ELSE IF Separators(sheet_name[k]) # {}
    THEN XW_Model_sheet_exists_split(bk, sheet_name, k, SplitName(sheet_name[k]))
    ELSE IF sheet_name[k] \in XW_sheets(bk) THEN Looked("ok", "", PyStr(sheet_name[k]), k)
    ELSE XW_Model_sheet_exists_from(bk, sheet_name, k + 1)

XW_Model_sheet_exists(bk, sheet_name) == XW_Model_sheet_exists_from(bk, sheet_name, 1)

\* the sheets of the current component: self.model.Sheets
Uno_sheets(bk) == UNION {bk[book] : book \in DOMAIN bk}

RECURSIVE Uno_Model_sheet_exists_from(_, _, _)
Uno_Model_sheet_exists_from(bk, args, k) ==
    IF k > Len(args) THEN Looked("ok", "", None, Len(args))
    ELSE IF args[k] \in Uno_sheets(bk) THEN Looked("ok", "", PyStr(args[k]), k)
    ELSE Uno_Model_sheet_exists_from(bk, args, k + 1)

Uno_Model_sheet_exists(bk, args) == Uno_Model_sheet_exists_from(bk, args, 1)

Model_sheet_exists(b, bk, args) ==
    IF b = "XW" THEN XW_Model_sheet_exists(bk, args) ELSE Uno_Model_sheet_exists(bk, args)

----------------------------------------------------------------------------
(* Inputs *)

Names == {PyStr(<<"a">>), PyStr(<<"b">>)}
CellValues == Names \cup {PyFloat(0)}
LineIndexes == 0..MaxNear
IndexArgs == (0 - MaxNear - 1)..MaxNear
Idents == Names \cup {PyInt(i) : i \in LineIndexes}
CellIdents == {PyInt(0), PyStr(<<"a">>)}
TypeHints == {"index", "name", "None"}
LineClasses == {"Row", "Column"}
SeriesKinds == {"columns", "rows"}

\* positions along an axis in Spec: near the origin, and one far position
\* that is MAX_CELL_GAP - 1 empty cells after the last near one
Axis == LineIndexes \cup {MAX_CELL_GAP + MaxNear}
GridPos == {p \in Axis \X Axis : p[1] <= MaxNear \/ p[2] <= MaxNear}
GridContents ==
    UNION {[D -> CellValues] : D \in {T \in SUBSET GridPos : Cardinality(T) <= MaxCells}}

\* SpecScan: the contents of one line, every inhabited cell holding v
ScanContents(self) ==
    {[p \in {CellLine_pos(self, k) : k \in S} |-> v] :
        S \in {T \in SUBSET (0..MaxLinePos) : Cardinality(T) <= MaxInhabited},
        v \in CellValues}

NoIter == [axis |-> "none"]
NoAdvance == [status |-> "none"]
NoCall == [op |-> "none"]
NoBooks == <<>>

Call(op, args, out) == [op |-> op, args |-> args, out |-> out, before |-> sheet]

----------------------------------------------------------------------------
(* Initial states *)

Init ==
    /\ backend \in Backends
    /\ colors = <<>>
    /\ books = NoBooks
    /\ cells \in GridContents
    /\ sheet = SheetDefault
    /\ it = NoIter
    /\ emitted = <<>>
    /\ last = NoAdvance
    /\ call = NoCall
    /\ len = LenIdle

InitScan ==
    /\ backend \in Backends
    /\ colors = <<>>
    /\ books = NoBooks
    /\ \E axis \in {"x", "y"}, index \in LineIndexes :
          /\ it = CellLine(axis, index)
          /\ cells \in ScanContents(CellLine(axis, index))
    /\ sheet = SheetDefault
    /\ emitted = <<>>
    /\ last = NoAdvance
    /\ call = NoCall
    /\ len = LenIdle

InitRef ==
    /\ backend \in Backends
    /\ colors = <<>>
    /\ books = NoBooks
    /\ cells = <<>>
    /\ sheet = SheetDefault
    /\ it = NoIter
    /\ emitted = <<>>
    /\ last = NoAdvance
    /\ call = NoCall
    /\ len = LenIdle

----------------------------------------------------------------------------
(* Actions *)

Idle == call.op = "none" /\ len.pc = "idle"

\* one __next__ of the CellLine iterator
Advanced(n) ==
    /\ it' = n.it
    /\ last' = [status |-> n.status, err |-> n.err, cell |-> n.cell, reads |-> n.reads]
    /\ emitted' = IF n.status = "cell" THEN Append(emitted, n.cell) ELSE emitted
    /\ UNCHANGED <<backend, colors, books, cells, sheet, call, len>>

Advance ==
    /\ it.axis \in {"x", "y"}
    /\ Advanced(CellLine_next(backend, sheet, cells, it))

Returns(c) ==
    /\ Idle
    /\ call' = c
    /\ UNCHANGED <<backend, colors, books, cells, sheet, it, emitted, last, len>>

\* the Line of class cls and index i, as the Sheet hands it out
LineOf(cls, i) ==
    IF cls = "Row" THEN Sheet_get_row_by_index(backend, sheet, PyInt(i)).ret.line
    ELSE Sheet_get_column_by_index(backend, sheet, PyInt(i)).ret.line

\* list(line)
IterateLine ==
    \E cls \in LineClasses, i \in LineIndexes :
        Returns(Call("iterate", <<cls, i>>,
                     Line_cells(backend, sheet, cells, LineOf(cls, i))))

GetColumnByName ==
    \E name \in Names :
        Returns(Call("get_column_by_name", <<name>>,
                     Sheet_get_column_by_name(backend, sheet, cells, name)))

\* sheet.columns and sheet.rows
SeriesOf(kind) ==
    IF kind = "columns" THEN Sheet_columns(backend, sheet) ELSE Sheet_rows(backend, sheet)

\* sheet.columns.get_by_name(name) and sheet.rows.get_by_name(name)
SeriesGetByName ==
    \E kind \in SeriesKinds, name \in Names :
        Returns(Call("get_by_name", <<kind, name>>,
                     LineSeries_get_by_name(backend, sheet, cells,
                                            SeriesOf(kind).ret.series, name)))

LineGetCellByReference ==
    \E cls \in LineClasses, i \in LineIndexes, name \in Names :
        Returns(Call("get_cell_by_reference", <<cls, i, name>>,
                     Line_get_cell_by_reference(backend, sheet, cells,
                                                LineOf(cls, i), name)))

GetRow ==
    \E id \in Idents :
        Returns(Call("get_row", <<id>>, Sheet_get_row(backend, sheet, cells, id)))

\* sheet.get_cell((x, y), x_identifier_type=xt, y_identifier_type=yt); the
\* record keeps which resolution the method chose for each coordinate
GetCell ==
    \E x \in CellIdents, y \in CellIdents, xt \in TypeHints, yt \in TypeHints :
        Returns([op |-> "get_cell", args |-> <<x, y, xt, yt>>,
                 out |-> Sheet_get_cell(backend, sheet, cells, x, y, xt, yt),
                 before |-> sheet,
                 x_by_name |-> Sheet_get_cell_x_by_name(x, xt, yt),
                 y_by_name |-> Sheet_get_cell_y_by_name(y, xt, yt)])

GetColumnByIndex ==
    \E i \in IndexArgs :
        Returns(Call("get_column_by_index", <<i>>,
                     Sheet_get_column_by_index(backend, sheet, PyInt(i))))

GetRowByIndex ==
    \E i \in IndexArgs :
        Returns(Call("get_row_by_index", <<i>>,
                     Sheet_get_row_by_index(backend, sheet, PyInt(i))))

LineGetCellByIndex ==
    \E cls \in LineClasses, l \in LineIndexes, i \in IndexArgs :
        Returns(Call("get_cell_by_index", <<cls, l, i>>,
                     Line_get_cell_by_index(backend, LineOf(cls, l), PyInt(i))))

Assigns(op, args, o) ==
    /\ Idle
    /\ call' = Call(op, args, [status |-> o.status, err |-> o.err])
    /\ sheet' = IF o.status = "ok" THEN o.sheet ELSE sheet
    /\ UNCHANGED <<backend, colors, books, cells, it, emitted, last, len>>

SetReferenceRowIndex ==
    \E n \in IndexArgs :
        Assigns("set_reference_row_index", <<n>>,
                Sheet_set_reference_row_index(sheet, n))

SetReferenceColumnIndex ==
    \E n \in IndexArgs :
        Assigns("set_reference_column_index", <<n>>,
                Sheet_set_reference_column_index(sheet, n))

\* sheet = Office.<backend>.Sheet(i7e_sheet, r, c): on an exception the name
\* keeps the Sheet it was bound to
SheetConstruct ==
    \E r \in IndexArgs, c \in IndexArgs :
        Assigns("Sheet", <<r, c>>, Sheet_init(r, c))

\* len(sheet.columns) / len(sheet.rows) is entered
LenCall ==
    /\ Idle
    /\ \E kind \in SeriesKinds : len' = LineSeries_len_enter(kind, SeriesOf(kind))
    /\ UNCHANGED <<backend, colors, books, cells, sheet, it, emitted, last, call>>

LenStep ==
    /\ len.pc = "loop"
    /\ len.count < MaxLenCount
    /\ len' = LineSeries_len_step(backend, sheet, cells, len.series, len.count)
    /\ UNCHANGED <<backend, colors, books, cells, sheet, it, emitted, last, call>>

\* the caller takes the outcome of the finished call
Return ==
    /\ call.op # "none" \/ len.pc \in {"returned", "raised"}
    /\ call' = NoCall
    /\ len' = LenIdle
    /\ UNCHANGED <<backend, colors, books, cells, sheet, it, emitted, last>>

Next ==
    \/ IterateLine
    \/ GetColumnByName
    \/ SeriesGetByName
    \/ LineGetCellByReference
    \/ GetRow
    \/ GetCell
    \/ GetColumnByIndex
    \/ GetRowByIndex
    \/ LineGetCellByIndex
    \/ SetReferenceRowIndex
    \/ SetReferenceColumnIndex
    \/ SheetConstruct
    \/ LenCall
    \/ LenStep
    \/ Return

NextScan == Advance

NextRef ==
    \/ SetReferenceRowIndex
    \/ SetReferenceColumnIndex
    \/ SheetConstruct
    \/ Return

Spec == Init /\ [][Next]_vars
SpecScan == InitScan /\ [][NextScan]_vars
SpecRef == InitRef /\ [][NextRef]_vars

----------------------------------------------------------------------------
(* Reference definitions, stated on the host contents alone *)

LinePos(cls, index, k) == IF cls = "Row" THEN <<k, index>> ELSE <<index, k>>

EmptyAt(pos) == pos \notin DOMAIN cells

\* the MAX_CELL_GAP cells p .. p + MAX_CELL_GAP - 1 of the line are all empty
LongGapAt(cls, index, p) ==
    \A k \in 0..(MAX_CELL_GAP - 1) : EmptyAt(LinePos(cls, index, p + k))

\* the least position at or after p where such a run starts
RECURSIVE GapFrom(_, _, _)
GapFrom(cls, index, p) ==
    IF LongGapAt(cls, index, p) THEN p ELSE GapFrom(cls, index, p + 1)

GapStart(cls, index) == GapFrom(cls, index, 0)

\* the cells the gap-tolerant scan of the line is to yield
ScanOf(cls, index) == [k \in 1..GapStart(cls, index) |-> LinePos(cls, index, k - 1)]

\* the reached positions of the line whose value equals name
Matches(cls, index, name) ==
    {k \in 0..(GapStart(cls, index) - 1) : HostValue(cells, LinePos(cls, index, k)) = name}

Least(S) == CHOOSE k \in S : \A j \in S : k <= j

ClassOfAxis(axis) == IF axis = "x" THEN "Row" ELSE "Column"

----------------------------------------------------------------------------
(* C1 *)

\* C1: on a sheet that is not written, a fresh CellLine emits exactly the
\* cells at positions 0 .. p-1 in increasing order, one per advance, and
\* then signals end, p being the least position where MAX_CELL_GAP
\* consecutive empty cells start.
C1_ScanStopsAtFirstLongGap ==
    LET cls == ClassOfAxis(it.axis)
        p == GapStart(cls, it.index)
    IN  /\ last.status \in {"none", "cell", "stop"}
        /\ Len(emitted) <= p
        /\ it.i = Len(emitted)
        /\ \A k \in 1..Len(emitted) : emitted[k] = LinePos(cls, it.index, k - 1)
        /\ last.status = "cell" => last.cell = LinePos(cls, it.index, Len(emitted) - 1)
        /\ last.status = "stop" => Len(emitted) = p

\* a run of MAX_CELL_GAP - 1 empty cells between two inhabited cells has been
\* traversed, and the scan has ended
C1_Witness ==
    /\ last.status = "stop"
    /\ \E k \in 0..MaxLinePos :
          /\ ~EmptyAt(CellLine_pos(it, k))
          /\ ~EmptyAt(CellLine_pos(it, k + MAX_CELL_GAP))
          /\ \A j \in 1..(MAX_CELL_GAP - 1) : EmptyAt(CellLine_pos(it, k + j))
          /\ Len(emitted) = k + MAX_CELL_GAP + 1

----------------------------------------------------------------------------
(* C2 .. C9, each stated on the outcome of the latest call *)

\* C2: iterating any Line, Row or Column, in either backend, yields the
\* cells of the gap-tolerant scan anchored at the line's index: (0,r),
\* (1,r), ... for a Row of index r and (c,0), (c,1), ... for a Column of
\* index c.
C2_LineIterationIsTheScan ==
    call.op = "iterate" =>
        /\ call.out.status = "ok"
        /\ call.out.ret.cells = ScanOf(call.args[1], call.args[2])

\* the reference line a name lookup scans, and what the lookup is to return
\* for the position k it resolves to
RefRow == sheet._reference_row_index
RefColumn == sheet._reference_column_index

LookupCalled == call.op \in {"get_by_name", "get_column_by_name", "get_cell_by_reference"}

LookupName == call.args[Len(call.args)]

\* class and index of the reference line of the latest lookup
LookupRefClass ==
    IF call.op = "get_column_by_name" THEN "Row"
    ELSE IF call.op = "get_by_name"
         THEN (IF call.args[1] = "columns" THEN "Row" ELSE "Column")
         ELSE call.args[1]

LookupRefIndex == IF LookupRefClass = "Row" THEN RefRow ELSE RefColumn

LookupMatches == Matches(LookupRefClass, LookupRefIndex, LookupName)

LookupTarget(k) ==
    IF call.op = "get_cell_by_reference"
    THEN RCell(LinePos(call.args[1], call.args[2], k))
    ELSE IF LookupRefClass = "Row" THEN [kind |-> "Line", cls |-> "Column", index |-> k]
    ELSE [kind |-> "Line", cls |-> "Row", index |-> k]

\* the returned value, a Line reduced to its class and index
Returned(ret) ==
    IF ret.kind = "Line"
    THEN [kind |-> "Line", cls |-> ret.line.cls, index |-> ret.line.index]
    ELSE ret

\* C3: when positions of the reference line hold a value equal to the
\* requested name, LineSeries.get_by_name, Sheet.get_column_by_name and
\* Line.get_cell_by_reference resolve to the lowest such position among
\* those the scan of the reference line reaches.
C3_LookupResolvesToLowestMatch ==
    (LookupCalled /\ LookupMatches # {}) =>
        /\ call.out.status = "ok"
        /\ Returned(call.out.ret) = LookupTarget(Least(LookupMatches))

\* C4: Sheet.get_row with a text identifier returns the Row at the lowest
\* position of the reference column whose value equals the identifier,
\* returns None when no position matches, and does not end in an error.
C4_GetRowByTextResolvesByName ==
    (call.op = "get_row" /\ IsStr(call.args[1])) =>
        LET m == Matches("Column", RefColumn, call.args[1])
        IN  /\ call.out.status = "ok"
            /\ Returned(call.out.ret) =
                  IF m = {} THEN RNone
                  ELSE [kind |-> "Line", cls |-> "Row", index |-> Least(m)]

\* C5: len(LineSeries) terminates and returns the number of Lines one full
\* traversal of the series yields: it raises nothing, what it returns is
\* that number, and its count never passes that number.
C5_LenIsTheTraversalCount ==
    len.pc # "idle" =>
        /\ len.pc # "raised"
        /\ LET n == GapStart(len.series.reference_line.cls,
                             len.series.reference_line.index)
           IN  /\ len.count <= n
               /\ len.pc = "returned" => len.result = n

\* C6: when no cell reached by the scan of the reference line equals the
\* requested name, the three lookups return None, without raising and
\* without writing to the host.
C6_LookupMissReturnsNone ==
    (LookupCalled /\ LookupMatches = {}) =>
        /\ call.out.status = "ok"
        /\ call.out.ret = RNone
        /\ call.out.writes = 0

\* C7: in Sheet.get_cell each coordinate is resolved by name iff its own
\* type hint is 'name', or its own type hint is unspecified and its own
\* value is text, whatever the other coordinate's hint.
C7_GetCellModesAreIndependent ==
    call.op = "get_cell" =>
        LET x == call.args[1]
            y == call.args[2]
            xt == call.args[3]
            yt == call.args[4]
        IN  /\ call.x_by_name = (xt = "name" \/ (xt = "None" /\ IsStr(x)))
            /\ call.y_by_name = (yt = "name" \/ (yt = "None" /\ IsStr(y)))

\* C8: in both backends Sheet.get_column_by_index(i) and
\* Sheet.get_row_by_index(i) with a negative i end in an error, return no
\* Line and perform no host read or write.
C8_NegativeLineIndexIsRejected ==
    (call.op \in {"get_column_by_index", "get_row_by_index"} /\ call.args[1] < 0) =>
        /\ call.out.status = "error"
        /\ call.out.ret.kind # "Line"
        /\ call.out.reads = 0
        /\ call.out.writes = 0

\* C9: in both backends, for Row and Column, Line.get_cell_by_index(i)
\* with a negative i ends in a range error and produces no Cell; with
\* i >= 0 it returns the Cell at (line.index, i) for a Column and at
\* (i, line.index) for a Row.
C9_CellIndexIsRangeChecked ==
    call.op = "get_cell_by_index" =>
        IF call.args[3] < 0
        THEN /\ call.out.status = "error"
             /\ call.out.err \in {"ValueError", "IndexError"}
             /\ call.out.ret.kind # "Cell"
        ELSE /\ call.out.status = "ok"
             /\ call.out.ret = RCell(LinePos(call.args[1], call.args[2], call.args[3]))

----------------------------------------------------------------------------
(* C10 *)

----------------------------------------------------------------------------
(* SpecCell: the methods of one Cell, on a host sheet of a few cells *)

\* the cells the methods are called on
CellPos == {<<0, 0>>, <<MaxNear, 0>>}

\* texts with at least one character that is not a space
CellTexts ==
    {PyStr(<<"a">>), PyStr(<<" ", "a">>), PyStr(<<"a", " ", " ", "a">>),
     PyStr(<<"a", " ", "a">>)}
CellHeld == CellTexts \cup {PyFloat(0)}
CellContents == UNION {[D -> CellHeld] : D \in SUBSET CellPos}

\* the fill a host cell may have at the start, as the backend's host keeps it
HostFills(b) == IF b = "XW" THEN {PyTuple(<<255, 0, 128>>)} ELSE {PyInt(16711808)}
CellFills(b) == UNION {[D -> HostFills(b)] : D \in SUBSET CellPos}

\* arguments of the value setter; the list is outside {number, text, None}
ValueArgs ==
    {None, PyStr(<<"a">>), PyStr(<<" ", "a">>), PyFloat(0), PyInt(0),
     PyList(<<PyStr(<<"a">>)>>)}
ValidValue(v) == v.t \in {"none", "int", "float", "str"}

\* arguments of set_color; the str and the tuple holding 256 are outside
\* {int, 3-tuple of ints in 0..255}
ColorArgs ==
    {PyInt(-1), PyInt(16711808), PyTuple(<<255, 0, 128>>), PyTuple(<<256, 0, 0>>),
     PyStr(<<"a">>)}
ValidColor(v) ==
    \/ v.t = "int"
    \/ v.t = "tuple" /\ Len(v.v) = 3 /\ \A k \in 1..3 : v.v[k] \in 0..255

InitCell ==
    /\ backend \in Backends
    /\ cells \in CellContents
    /\ colors \in CellFills(backend)
    /\ books = NoBooks
    /\ sheet = SheetDefault
    /\ it = NoIter
    /\ emitted = <<>>
    /\ last = NoAdvance
    /\ call = NoCall
    /\ len = LenIdle

\* a call that writes to the host: the host is left as the call left it,
\* whether it returned or raised
Edits(op, args, o) ==
    /\ Idle
    /\ call' = [op |-> op, args |-> args,
                out |-> [status |-> o.status, err |-> o.err, writes |-> o.writes],
                before |-> sheet, cells_before |-> cells, colors_before |-> colors]
    /\ cells' = o.cells
    /\ colors' = o.colors
    /\ UNCHANGED <<backend, books, sheet, it, emitted, last, len>>

CellClear ==
    \E pos \in CellPos :
        Edits("Cell.clear", <<pos>>, Cell_clear(backend, cells, colors, pos))

CellSetValue ==
    \E pos \in CellPos, v \in ValueArgs :
        Edits("Cell.value=", <<pos, v>>, Cell_set_value(backend, cells, colors, pos, v))

CellSetColor ==
    \E pos \in CellPos, v \in ColorArgs :
        Edits("Cell.set_color", <<pos, v>>, Cell_set_color(backend, cells, colors, pos, v))

CellRemoveWhitespace ==
    \E pos \in CellPos :
        Edits("Cell.remove_whitespace", <<pos>>,
              Cell_remove_whitespace(backend, cells, colors, pos))

NextCell ==
    \/ CellClear
    \/ CellSetValue
    \/ CellSetColor
    \/ CellRemoveWhitespace
    \/ Return

SpecCell == InitCell /\ [][NextCell]_vars

\* every position but pos is as it was before the latest call
OthersUnchanged(pos) ==
    /\ DOMAIN cells \ {pos} = DOMAIN call.cells_before \ {pos}
    /\ \A p \in DOMAIN cells \ {pos} : cells[p] = call.cells_before[p]
    /\ DOMAIN colors \ {pos} = DOMAIN call.colors_before \ {pos}
    /\ \A p \in DOMAIN colors \ {pos} : colors[p] = call.colors_before[p]

\* C11: in both backends, whatever the value and color of the cell before,
\* Cell.clear() completes without error, and afterwards the cell's value
\* reads None and its color reads DEFAULT_COLOR; no other cell is changed.
C11_ClearResetsValueAndColor ==
    call.op = "Cell.clear" =>
        /\ call.out.status = "ok"
        /\ Cell_value(backend, cells, call.args[1]) = None
        /\ Cell_get_color(backend, colors, call.args[1]) = PyInt(DEFAULT_COLOR)
        /\ OthersUnchanged(call.args[1])

----------------------------------------------------------------------------
(* SpecLines: the methods of a Line and of a LineSeries that go over the   *)
(* cells of a line, on a sheet with any reference indexes                  *)

LineValues == {PyStr(<<"a">>), PyStr(<<" ", "a">>), PyFloat(0)}

\* a few cells near the origin or one gap away from it
SparseContents ==
    UNION {[D -> LineValues] : D \in {T \in SUBSET GridPos : Cardinality(T) <= MaxCells}}

\* a run of cells at the start of row 0 or of column 0
MaxRun == 3
RunContents ==
    UNION {[D -> LineValues] :
             D \in UNION {SUBSET {LinePos(cls, 0, k) : k \in 0..MaxRun} : cls \in LineClasses}}

\* no fill, or one filled cell
LineFills(b) ==
    {<<>>} \cup {[p \in {q} |-> f] : q \in {<<0, 0>>, <<0, MaxNear>>}, f \in HostFills(b)}

InitLines ==
    /\ backend \in Backends
    /\ cells \in SparseContents \cup RunContents
    /\ colors \in LineFills(backend)
    /\ books = NoBooks
    /\ sheet \in [_reference_row_index : LineIndexes, _reference_column_index : LineIndexes]
    /\ it = NoIter
    /\ emitted = <<>>
    /\ last = NoAdvance
    /\ call = NoCall
    /\ len = LenIdle

LineClear ==
    \E cls \in LineClasses, i \in LineIndexes, include_header \in BOOLEAN :
        Edits("Line.clear", <<cls, i, include_header>>,
              Line_clear(backend, sheet, cells, colors, LineOf(cls, i), include_header))

\* list(line.duplicates)
LineDuplicates ==
    \E cls \in LineClasses, i \in LineIndexes :
        Returns(Call("Line.duplicates", <<cls, i>>,
                     Line_duplicates(backend, sheet, cells, LineOf(cls, i))))

\* list(sheet.columns.named_only) and list(sheet.rows.named_only)
SeriesNamedOnly ==
    \E kind \in SeriesKinds :
        Returns(Call("named_only", <<kind>>,
                     LineSeries_named_only(backend, sheet, cells,
                                           SeriesOf(kind).ret.series)))

\* list(sheet.columns), list(sheet.rows) and the indexes of the same lines
SeriesIndexes ==
    \E kind \in SeriesKinds :
        Returns(Call("LineSeries.indexes", <<kind>>,
                     LineSeries_indexes(backend, sheet, cells,
                                        SeriesOf(kind).ret.series)))

NextLines ==
    \/ LineClear
    \/ LineDuplicates
    \/ SeriesNamedOnly
    \/ SeriesIndexes
    \/ Return

SpecLines == InitLines /\ [][NextLines]_vars

\* the scan of a line on the host h: where its first long gap starts
RECURSIVE GapFromIn(_, _, _, _)
GapFromIn(h, cls, index, p) ==
    IF \A k \in 0..(MAX_CELL_GAP - 1) : LinePos(cls, index, p + k) \notin DOMAIN h
    THEN p ELSE GapFromIn(h, cls, index, p + 1)

\* the positions a traversal of the line yields on the host h
Traversed(h, cls, index) == 0..(GapFromIn(h, cls, index, 0) - 1)

\* the index, along a line of class cls, of the cell holding its name
NameIndex(cls) ==
    IF cls = "Column" THEN sheet._reference_row_index ELSE sheet._reference_column_index

\* the cells Line.clear(include_header) is to clear
ToClear(cls, index, include_header) ==
    {LinePos(cls, index, k) :
        k \in {j \in Traversed(call.cells_before, cls, index) :
                 j > NameIndex(cls) \/ (j = NameIndex(cls) /\ include_header)}}

ClearedAt(pos) == pos \notin DOMAIN cells /\ pos \notin DOMAIN colors

SameAt(pos) ==
    /\ HostValue(cells, pos) = HostValue(call.cells_before, pos)
    /\ (pos \in DOMAIN colors) = (pos \in DOMAIN call.colors_before)
    /\ pos \in DOMAIN colors => colors[pos] = call.colors_before[pos]

EverHeld == DOMAIN cells \cup DOMAIN colors \cup DOMAIN call.cells_before
                \cup DOMAIN call.colors_before

\* C12: Line.clear(include_header) clears exactly the traversed positions
\* past name_cell_index, and name_cell_index itself iff include_header;
\* every other cell is unchanged: positions before name_cell_index, the
\* header when include_header is false, cells beyond the terminating gap.
C12_LineClearClearsPastTheHeader ==
    call.op = "Line.clear" =>
        /\ call.out.status = "ok"
        /\ \A pos \in ToClear(call.args[1], call.args[2], call.args[3]) : ClearedAt(pos)
        /\ \A pos \in EverHeld \ ToClear(call.args[1], call.args[2], call.args[3]) :
              SameAt(pos)

\* the members of a set of numbers, in increasing order
RECURSIVE Ascending(_)
Ascending(S) == IF S = {} THEN <<>> ELSE <<Least(S)>> \o Ascending(S \ {Least(S)})

\* the whitespace-normalized value at position k of a line
NormalAt(cls, index, k) ==
    Cell_value_without_whitespace_on(HostValue(cells, LinePos(cls, index, k)))

\* the traversed positions whose normalized value occurred at a lower one
Repeats(cls, index) ==
    {j \in Traversed(cells, cls, index) :
        \E i \in Traversed(cells, cls, index) :
            i < j /\ NormalAt(cls, index, i) = NormalAt(cls, index, j)}

\* C13: Line.duplicates yields, in increasing position order, exactly the
\* cells at traversed positions j whose whitespace-normalized value is that
\* of some traversed position i < j; a first occurrence is never yielded.
C13_DuplicatesAreTheRepeats ==
    call.op = "Line.duplicates" =>
        /\ call.out.status = "ok"
        /\ call.out.ret.cells =
              [n \in 1..Cardinality(Repeats(call.args[1], call.args[2])) |->
                  LinePos(call.args[1], call.args[2],
                          Ascending(Repeats(call.args[1], call.args[2]))[n])]

\* the latest call left the host as it was
HostUnchanged == cells = call.cells_before /\ colors = call.colors_before

\* C14: in both backends a value setter given an argument outside
\* {number, text, None}, and a color setter given an argument outside
\* {int, 3-tuple of ints in 0..255}, end in an error before any host write,
\* the cell's value and color on the host being unchanged.
C14_SettersRejectBeforeWriting ==
    /\ (call.op = "Cell.value=" /\ ~ValidValue(call.args[2])) =>
          call.out.status = "error" /\ call.out.writes = 0 /\ HostUnchanged
    /\ (call.op = "Cell.set_color" /\ ~ValidColor(call.args[2])) =>
          call.out.status = "error" /\ call.out.writes = 0 /\ HostUnchanged

\* the characters of s that are not spaces, in order
Letters(s) == SelectSeq(s, LAMBDA ch : ch # " ")

\* the number of words of s
WordCount(s) ==
    Cardinality({i \in 1..Len(s) : s[i] # " " /\ (i = 1 \/ s[i - 1] = " ")})

\* t is s with every run of spaces made one space and both ends trimmed
Collapsed(s, t) ==
    /\ Letters(t) = Letters(s)
    /\ WordCount(t) = WordCount(s)
    /\ t # <<>> => t[1] # " " /\ t[Len(t)] # " "
    /\ \A i \in 1..(Len(t) - 1) : ~(t[i] = " " /\ t[i + 1] = " ")

\* C15: in both backends Cell.remove_whitespace() completes without error;
\* a text value is replaced by the same text with every whitespace run
\* collapsed to one space and both ends trimmed, a number or None is left
\* as it is; afterwards has_whitespace is false and a second application
\* leaves the cell state as the first left it.
C15_RemoveWhitespaceNormalizesOnce ==
    call.op = "Cell.remove_whitespace" =>
        /\ call.out.status = "ok"
        /\ IF HostValue(call.cells_before, call.args[1]).t = "str"
           THEN /\ Cell_value(backend, cells, call.args[1]).t = "str"
                /\ Collapsed(HostValue(call.cells_before, call.args[1]).v,
                             Cell_value(backend, cells, call.args[1]).v)
           ELSE Cell_value(backend, cells, call.args[1])
                    = HostValue(call.cells_before, call.args[1])
        /\ OthersUnchanged(call.args[1])
        /\ colors = call.colors_before
        /\ ~Cell_has_whitespace(backend, cells, call.args[1])
        /\ Cell_remove_whitespace(backend, cells, colors, call.args[1]).status = "ok"
        /\ Cell_remove_whitespace(backend, cells, colors, call.args[1]).cells = cells
        /\ Cell_remove_whitespace(backend, cells, colors, call.args[1]).colors = colors

\* the class and index of the reference line of sheet.columns / sheet.rows
SeriesRefClass(kind) == IF kind = "columns" THEN "Row" ELSE "Column"
SeriesRefIndex(kind) == IF kind = "columns" THEN RefRow ELSE RefColumn

\* the indexes of the lines of the series whose name is not None: the name
\* of the line a traversed cell of the reference line stands for is the
\* value of that cell
Named(kind) ==
    {k \in Traversed(cells, SeriesRefClass(kind), SeriesRefIndex(kind)) :
        HostValue(cells, LinePos(SeriesRefClass(kind), SeriesRefIndex(kind), k)) # None}

\* C16: LineSeries.named_only yields, in traversal order, exactly the lines
\* of the series whose name is not None: a line named by any number, 0
\* included, or by any text is yielded, a line whose name is None is not.
C16_NamedOnlyKeepsEveryName ==
    call.op = "named_only" =>
        /\ call.out.status = "ok"
        /\ [n \in 1..Len(call.out.ret.lines) |-> call.out.ret.lines[n].index]
              = Ascending(Named(call.args[1]))
        /\ \A n \in 1..Len(call.out.ret.lines) :
              call.out.ret.lines[n].cls = (IF call.args[1] = "columns" THEN "Column" ELSE "Row")

----------------------------------------------------------------------------
(* SpecName: cell writes, reference index assignments and Line.name *)

NearPos == LineIndexes \X LineIndexes
NameValues == {PyStr(<<"a">>), PyFloat(0)}

InitName ==
    /\ backend \in Backends
    /\ cells = <<>>
    /\ colors = <<>>
    /\ books = NoBooks
    /\ sheet = SheetDefault
    /\ it = NoIter
    /\ emitted = <<>>
    /\ last = NoAdvance
    /\ call = NoCall
    /\ len = LenIdle

\* sheet.get_cell((x, y)).value = v, the sheet holding at most MaxCells cells
CellWrite ==
    \E pos \in NearPos, v \in NameValues \cup {PyInt(1), None} :
        /\ Cardinality(DOMAIN cells \cup {pos}) <= MaxCells
        /\ Edits("Cell.value=", <<pos, v>>, Cell_set_value(backend, cells, colors, pos, v))

\* line.name, on a Line of index i
LineName ==
    \E cls \in LineClasses, i \in LineIndexes :
        Returns(Call("Line.name", <<cls, i>>,
                     Line_name(backend, sheet, cells, LineOf(cls, i))))

NextName ==
    \/ CellWrite
    \/ SetReferenceRowIndex
    \/ SetReferenceColumnIndex
    \/ LineName
    \/ Return

SpecName == InitName /\ [][NextName]_vars

\* the cell a line's name is kept in: (c, reference_row_index) for the
\* Column c, (reference_column_index, r) for the Row r
NamePos(cls, index) == IF cls = "Column" THEN <<index, RefRow>> ELSE <<RefColumn, index>>

\* C17: after any sequence of cell writes and reference index assignments,
\* the name of the Column c is the current value of the cell at
\* (c, sheet.reference_row_index) and the name of the Row r that of the
\* cell at (sheet.reference_column_index, r); None when that cell is empty.
C17_NameIsTheReferenceCellValue ==
    call.op = "Line.name" =>
        /\ call.out.status = "ok"
        /\ call.out.ret.value = HostValue(cells, NamePos(call.args[1], call.args[2]))

\* a name read off a reference line other than line 0, from a cell written
\* after the sheet was built
C17_Witness ==
    /\ call.op = "Line.name"
    /\ call.args[1] = "Column"
    /\ RefRow > 0
    /\ call.out.status = "ok"
    /\ call.out.ret.value = PyFloat(1)
    /\ <<call.args[2], 0>> \in DOMAIN cells
    /\ cells[<<call.args[2], 0>>] # PyFloat(1)

----------------------------------------------------------------------------
(* SpecModel: Model.sheet_exists over the open books of the host *)

BookNames == {<<"w">>, <<"v">>}
SheetNames == {<<"s">>, <<"t">>}
Candidates == SheetNames \cup {<<"w", "::", "s">>, <<"w", "::", "t">>}
\* sheet_exists is called with 1..MaxCandidates names
MaxCandidates == 2
CandidateLists == UNION {[1..n -> Candidates] : n \in 1..MaxCandidates}

\* XW sees every open book of the application, Uno the current document
HostBooks(b) ==
    UNION {[D -> SUBSET SheetNames \ {{}}] :
             D \in {T \in SUBSET BookNames : b = "XW" \/ Cardinality(T) = 1}}

InitModel ==
    /\ backend \in Backends
    /\ books \in HostBooks(backend)
    /\ cells = <<>>
    /\ colors = <<>>
    /\ sheet = SheetDefault
    /\ it = NoIter
    /\ emitted = <<>>
    /\ last = NoAdvance
    /\ call = NoCall
    /\ len = LenIdle

SheetExists ==
    \E args \in CandidateLists :
        Returns(Call("sheet_exists", args, Model_sheet_exists(backend, books, args)))

NextModel ==
    \/ SheetExists
    \/ Return

SpecModel == InitModel /\ [][NextModel]_vars

\* the candidate names an existing sheet: of the named book when it is
\* qualified, of any open book when it is not
NamesSheet(name) ==
    IF \E i \in 1..Len(name) : name[i] = "::"
    THEN \E book \in DOMAIN books : \E sh \in books[book] : name = book \o <<"::">> \o sh
    ELSE \E book \in DOMAIN books : name \in books[book]

Hits(args) == {k \in 1..Len(args) : NamesSheet(args[k])}

\* C18: in both backends Model.sheet_exists(c1, ..., cn) returns the first
\* candidate, in argument order and exactly as passed, qualifier included,
\* that names an existing sheet, and None when no candidate does;
\* candidates after the first hit are not looked up.
C18_SheetExistsReturnsFirstHitAsPassed ==
    call.op = "sheet_exists" =>
        /\ call.out.status = "ok"
        /\ IF Hits(call.args) = {}
           THEN call.out.ret = None
           ELSE /\ call.out.ret = PyStr(call.args[Least(Hits(call.args))])
                /\ call.out.lookups = Least(Hits(call.args))

----------------------------------------------------------------------------
(* C19, on the latest Sheet.get_cell of Spec *)

\* the reached positions of the line whose value compares equal to name
EqualMatches(cls, index, name) ==
    {k \in 0..(GapStart(cls, index) - 1) :
        PyEq(HostValue(cells, LinePos(cls, index, k)), name)}

\* the column coordinate of the latest get_cell designates a column
ColumnResolves ==
    IF call.x_by_name THEN EqualMatches("Row", RefRow, call.args[1]) # {}
    ELSE IsInt(call.args[1])

\* C19: Sheet.get_cell with a coordinate resolved by name returns None,
\* without raising, when that name matches no cell of the corresponding
\* reference line: when the column name is not found, and when the row
\* name is not found.
C19_GetCellMissReturnsNone ==
    call.op = "get_cell" =>
        /\ (call.x_by_name /\ EqualMatches("Row", RefRow, call.args[1]) = {}) =>
              call.out.status = "ok" /\ call.out.ret = RNone
        /\ (ColumnResolves /\ call.y_by_name
                /\ EqualMatches("Column", RefColumn, call.args[2]) = {}) =>
              call.out.status = "ok" /\ call.out.ret = RNone

----------------------------------------------------------------------------
(* SpecColor: the Color class on its own *)

\* channel values: the lowest and highest MaxChannel + 1, and the middle
MaxChannel == 1
Channels == (0..MaxChannel) \cup {127, 128} \cup ((255 - MaxChannel)..255)
\* packed integers in 0..16777215: every combination of those channels
PackedColors == {r * 65536 + g * 256 + b : r \in Channels, g \in Channels, b \in Channels}

InitColor ==
    /\ backend \in Backends
    /\ books = NoBooks
    /\ cells = <<>>
    /\ colors = <<>>
    /\ sheet = SheetDefault
    /\ it = NoIter
    /\ emitted = <<>>
    /\ last = NoAdvance
    /\ call = NoCall
    /\ len = LenIdle

\* what is known of a constructed Color: its stored integer and its rgb
ColorMade(c) ==
    IF c.status = "error" THEN [status |-> "error", err |-> c.err]
    ELSE [status |-> "ok", err |-> "", color |-> c.ret.color, rgb |-> Color_rgb(c.ret.color)]

\* Color((r, g, b))
ColorFromRgb ==
    \E r \in Channels, g \in Channels, b \in Channels :
        Returns(Call("Color", <<r, g, b>>, ColorMade(Color_init(PyTuple(<<r, g, b>>)))))

\* Color(Color(n).rgb)
ColorFromRgbOfInt ==
    \E n \in PackedColors :
        Returns(Call("Color(Color.rgb)", <<n>>,
                     ColorMade(Color_init(PyTuple(ColorMade(Color_init(PyInt(n))).rgb)))))

NextColor ==
    \/ ColorFromRgb
    \/ ColorFromRgbOfInt
    \/ Return

SpecColor == InitColor /\ [][NextColor]_vars

\* C20: for r, g, b in 0..255, Color((r, g, b)) stores r*65536 + g*256 + b
\* and its rgb accessor returns (r, g, b); for a packed integer n in
\* 0..16777215, Color(Color(n).rgb) stores n.
C20_ColorPacksAndUnpacks ==
    /\ call.op = "Color" =>
          /\ call.out.status = "ok"
          /\ call.out.color = call.args[1] * 65536 + call.args[2] * 256 + call.args[3]
          /\ call.out.rgb = call.args
    /\ call.op = "Color(Color.rgb)" =>
          /\ call.out.status = "ok"
          /\ call.out.color = call.args[1]

\* the packed integer 16711808 went through its rgb tuple (255, 0, 128)
\* and back
C20_Witness ==
    /\ call.op = "Color(Color.rgb)"
    /\ call.args[1] = 16711808
    /\ call.out.status = "ok"
    /\ call.out.rgb = <<255, 0, 128>>
    /\ call.out.color = 16711808

----------------------------------------------------------------------------
(* C21 *)

\* C21: on a sheet that is not written during the traversal, iterating a
\* LineSeries terminates and yields one Line per cell reached by the
\* gap-tolerant scan of its reference line, in position order, of the
\* crossing kind (Columns when the reference line is a Row, Rows when it is
\* a Column), so that LineSeries.indexes yields exactly 0, 1, ..., n-1.
C21_SeriesYieldsOneLinePerScannedCell ==
    call.op = "LineSeries.indexes" =>
        /\ call.out.status = "ok"
        /\ Len(call.out.ret.lines)
              = GapFromIn(cells, SeriesRefClass(call.args[1]), SeriesRefIndex(call.args[1]), 0)
        /\ \A n \in 1..Len(call.out.ret.lines) :
              /\ call.out.ret.lines[n].cls
                    = (IF call.args[1] = "columns" THEN "Column" ELSE "Row")
              /\ call.out.ret.lines[n].index = n - 1
        /\ call.out.ret.indexes = [n \in 1..Len(call.out.ret.lines) |-> n - 1]

----------------------------------------------------------------------------
(* SpecIter: one CellLine iterator, advanced while the host writes and     *)
(* empties cells of its line between the advances                          *)

\* the positions of the line the host writes to, and how many cells the
\* line holds at once
MaxIterPos == 9
MaxHeld == 2

InitIter ==
    /\ backend \in Backends
    /\ colors = <<>>
    /\ books = NoBooks
    /\ cells = <<>>
    /\ \E axis \in {"x", "y"}, index \in {0, MaxNear} : it = CellLine(axis, index)
    /\ sheet = SheetDefault
    /\ emitted = <<>>
    /\ last = NoAdvance
    /\ call = NoCall
    /\ len = LenIdle

\* the host puts a text into a cell of the line, or empties it
HostWrite ==
    \E k \in 0..MaxIterPos, v \in {PyStr(<<"a">>), None} :
        /\ Cardinality(DOMAIN cells \cup {CellLine_pos(it, k)}) <= MaxHeld
        /\ HostPut(cells, CellLine_pos(it, k), v) # cells
        /\ cells' = HostPut(cells, CellLine_pos(it, k), v)
        /\ UNCHANGED <<backend, colors, books, sheet, it, emitted, last, call, len>>

NextIter ==
    \/ Advance
    \/ HostWrite

SpecIter == InitIter /\ [][NextIter]_vars

\* a step that is an advance of the iterator: it changes the iterator, or
\* the outcome of its latest advance
Advances == <<it, last, emitted>>' # <<it, last, emitted>>

----------------------------------------------------------------------------
(* C22 *)

\* C22: once a CellLine iterator has signalled end-of-sequence it never
\* emits another cell: every later advance signals end again and leaves
\* the cursor unchanged, whatever cell writes are made between the advances.
C22_EndIsFinal ==
    [][last.status = "stop" =>
          /\ last'.status = "stop"
          /\ it' = it
          /\ emitted' = emitted]_vars

----------------------------------------------------------------------------
(* C23 *)

\* C23: an advance whose cursor i is <= highest_inhabited_i emits the cell
\* at i after reading only that one cell, with no forward probe, whether or
\* not the cell is empty; an advance probes only at an empty cell at a
\* position > highest_inhabited_i.
C23_VouchedPositionsAreEmittedUnprobed ==
    [][Advances =>
          /\ it.i <= it.highest_inhabited_i =>
                /\ last'.status = "cell"
                /\ last'.cell = CellLine_pos(it, it.i)
                /\ last'.reads = 1
                /\ it' = [it EXCEPT !.i = it.i + 1]
                /\ emitted' = Append(emitted, CellLine_pos(it, it.i))
          /\ last'.reads > 1 <=>
                /\ it.i > it.highest_inhabited_i
                /\ EmptyAt(CellLine_pos(it, it.i))]_vars

\* the cell at highest_inhabited_i was emptied by the host after the probe
\* that recorded it, and has been emitted from a single read
C23_Witness ==
    /\ last.status = "cell"
    /\ last.reads = 1
    /\ EmptyAt(last.cell)
    /\ last.cell = CellLine_pos(it, it.highest_inhabited_i)
    /\ it.i = it.highest_inhabited_i + 1

----------------------------------------------------------------------------
(* C24 *)

\* C24: the cursor i starts at 0, increases by exactly 1 on each advance
\* that emits a cell and is unchanged by an advance that signals end;
\* highest_inhabited_i starts at -1, never decreases, changes only on an
\* advance whose probe finds a non-empty cell, and right after such an
\* advance i <= highest_inhabited_i <= i + MAX_CELL_GAP - 2; each advance
\* performs at most MAX_CELL_GAP cell reads and no write.
C24_CursorAndProbeBookkeeping ==
    /\ it.i = 0
    /\ it.highest_inhabited_i = -1
    /\ [][/\ it'.highest_inhabited_i >= it.highest_inhabited_i
          /\ ~Advances => it' = it
          /\ Advances =>
                /\ cells' = cells
                /\ colors' = colors
                /\ last'.reads <= MAX_CELL_GAP
                /\ last'.status = "cell" => it'.i = it.i + 1
                /\ last'.status # "cell" => it'.i = it.i
                /\ it'.highest_inhabited_i # it.highest_inhabited_i =>
                      /\ last'.status = "cell"
                      /\ last'.reads > 1
                      /\ EmptyAt(last'.cell)
                      /\ ~EmptyAt(CellLine_pos(it, it'.highest_inhabited_i))
                      /\ it'.i <= it'.highest_inhabited_i
                      /\ it'.highest_inhabited_i <= it'.i + MAX_CELL_GAP - 2]_vars

\* a probe has just found a cell at the far end of its window
C24_Witness ==
    /\ last.status = "cell"
    /\ last.reads = MAX_CELL_GAP
    /\ it.i >= 1
    /\ it.highest_inhabited_i = it.i + MAX_CELL_GAP - 2

====
